---- MODULE Spec2Model ----
(***************************************************************************)
(* Model of the Canadian briefing pipeline:                                *)
(*   streamlit_app.py                        run coordinator (cooldown)    *)
(*   data_retrieval_storage_news_engine.py   retrieval orchestrator        *)
(*   step2_summarisation_with_easier_reading_ca.py   summarisation         *)
(* Strings are TLA+ strings; Python's None / missing value is NONE.        *)
(***************************************************************************)
EXTENDS Integers, Sequences, FiniteSets, TLC

VARIABLES
    dd,       \* harness of dedupe_rows: [rows, key_index, keep_n, out, done]
    fmUrls,   \* fetch_meta_descriptions: the urls argument
    fmLimit,  \* fetch_meta_descriptions: the limit argument
    fmSem,    \* value of the asyncio.Semaphore
    fmTask,   \* position of each bound(u) coroutine
    fmResp,   \* what the network answered to each task's request
    fmRet,    \* value each bound(u) coroutine returned
    fmOrder,  \* task indices in the order the coroutines finished
    fmOut,    \* [returned, value]: the list fetch_meta_descriptions returned
    clock,    \* the UTC clock, in ticks of 1/TicksPerSecond second
    meta,     \* worksheet "Metadata CA": [exists, time (cell A2), summary (cell B2)]
    sheets,   \* the other worksheets of the workbook, by title
    pc,       \* position of each run_all invocation
    loc,      \* local variables of each run_all invocation
    log,      \* the external calls each invocation made since it was called
    calls,    \* number of run_all invocations so far
    limited,  \* number of trends fetches the provider has rate-limited so far
    st        \* harness of the writing of one table: [k, records, ws, metas,
              \* rows, phase, first]

fetchVars == <<fmUrls, fmLimit, fmSem, fmTask, fmResp, fmRet, fmOrder, fmOut>>
runVars == <<clock, meta, sheets, pc, loc, log, calls, limited>>
vars == <<dd, st, fetchVars, runVars>>

\* ------------------------------------------------------------------------
\* Bounds of the model
\* ------------------------------------------------------------------------
MaxRows == 3        \* longest row list handed to dedupe_rows
MaxCap  == 3        \* largest keep_n handed to dedupe_rows
MaxUrls == 3        \* longest url list handed to fetch_meta_descriptions
MaxLimit == 2       \* largest concurrency limit tried
MaxCalls == 3       \* run_all invocations in one behaviour
MaxRateLimits == 1  \* trends fetches the provider rate-limits over several invocations
MaxRecords == 3     \* longest record list handed to store_data_in_google_sheets

\* ------------------------------------------------------------------------
\* Python helpers
\* ------------------------------------------------------------------------
NONE == "<None>"

Min(a, b) == IF a <= b THEN a ELSE b

\* str.startswith(prefix)
StartsWith(s, prefix) ==
    /\ Len(s) >= Len(prefix)
    /\ SubSeq(s, 1, Len(prefix)) = prefix

\* `x or default`: None and the empty string are falsy
OrDefault(x, default) == IF x = NONE \/ x = "" THEN default ELSE x

\* ------------------------------------------------------------------------
\* 4  Dedup helper                      (data_retrieval..., lines 137-146)
\* ------------------------------------------------------------------------
\* The for-loop of dedupe_rows from row i on, with the loop's seen and out.
\* key_index is 0-based as in Python; TLA+ sequences are 1-based.
RECURSIVE DedupeLoop(_, _, _, _, _, _)
DedupeLoop(rows, i, key_index, keep_n, seen, out) ==
    IF i > Len(rows) THEN out
    ELSE LET row  == rows[i]
             key  == row[key_index + 1]
             out2 == IF key \notin seen THEN Append(out, row) ELSE out
         IN  IF Len(out2) >= keep_n
                THEN out2                                   \* break
                ELSE DedupeLoop(rows, i + 1, key_index, keep_n,
                                seen \cup {key}, out2)

\* mutant: the rows are capped but duplicates are kept
CapOnly(rows, key_index, keep_n) == SubSeq(rows, 1, Min(keep_n, Len(rows)))

dedupe_rows(rows, key_index, keep_n) ==
    DedupeLoop(rows, 1, key_index, keep_n, {}, <<>>)

\* the harness of dedupe_rows before any call
DDIdle == [rows |-> <<>>, key_index |-> 1, keep_n |-> 1, out |-> <<>>,
           done |-> FALSE]

\* ------------------------------------------------------------------------
\* 5  Async meta-description fetch      (data_retrieval..., lines 151-174)
\* ------------------------------------------------------------------------
Whitespace == {" ", "\t", "\n"}

RECURSIVE LStrip(_)
LStrip(s) ==
    IF Len(s) > 0 /\ SubSeq(s, 1, 1) \in Whitespace
        THEN LStrip(SubSeq(s, 2, Len(s))) ELSE s

RECURSIVE RStrip(_)
RStrip(s) ==
    IF Len(s) > 0 /\ SubSeq(s, Len(s), Len(s)) \in Whitespace
        THEN RStrip(SubSeq(s, 1, Len(s) - 1)) ELSE s

\* str.strip()
Strip(s) == RStrip(LStrip(s))

\* What session.get can come back with: a response (status, and the content
\* attribute of the page's <meta name="description"> tag, NONE when the tag
\* or the attribute is missing), or an exception (timeout, network, parse).
HttpOk == 200
RespException == [kind |-> "exc", status |-> 0, content |-> NONE]
NoResponse == [kind |-> "none", status |-> 0, content |-> NONE]
NotReturned == [returned |-> FALSE, value |-> <<>>]
Response(status, content) == [kind |-> "resp", status |-> status, content |-> content]

\* mutant: only a missing url is refused
InvalidUrlOnlyMissing(url) == url = NONE \/ url = ""

\* _grab_desc before its first await: the url test of line 152
InvalidUrl(url) == url = NONE \/ url = "" \/ ~StartsWith(url, "http")

\* _grab_desc: the description for url when the request came back with resp
GrabDesc(url, resp) ==
    IF InvalidUrl(url) THEN "Invalid URL"
    ELSE IF resp.kind = "exc" THEN "Error Fetching Description"
    ELSE IF resp.status # HttpOk THEN "HTTP " \o ToString(resp.status)
    ELSE IF resp.content # NONE /\ Strip(resp.content) # ""
         THEN Strip(resp.content)
         ELSE "No Meta Description"

\* mutant: the coroutines do not wait for the semaphore
SemNeverBlocks(sem) == TRUE

\* `async with sem`: the semaphore can be taken
SemAvailable(sem) == sem > 0

\* mutant: the results in the order the coroutines finished
GatherByCompletion(ret, order) == [k \in 1..Len(order) |-> ret[order[k]]]

\* asyncio.gather: the results in the order of the awaitables passed in
GatherResults(ret, order) == [i \in 1..Len(ret) |-> ret[i]]

FetchIdle ==
    /\ fmUrls = <<>>
    /\ fmLimit = 1
    /\ fmSem = 1
    /\ fmTask = <<>>
    /\ fmResp = <<>>
    /\ fmRet = <<>>
    /\ fmOrder = <<>>
    /\ fmOut = NotReturned

\* fetch_meta_descriptions(urls, limit) up to gather: one coroutine per url
FetchStart(urls, limit) ==
    /\ fmUrls = urls
    /\ fmLimit = limit
    /\ fmSem = limit
    /\ fmTask = [i \in 1..Len(urls) |-> "waiting"]
    /\ fmResp = [i \in 1..Len(urls) |-> NoResponse]
    /\ fmRet = [i \in 1..Len(urls) |-> NONE]
    /\ fmOrder = <<>>
    /\ fmOut = NotReturned

\* bound(u) takes the semaphore and runs _grab_desc to its first await: an
\* invalid url returns at once (and the semaphore is given back), any other
\* url has its request sent.
TaskAcquire(i) ==
    /\ fmTask[i] = "waiting"
    /\ SemAvailable(fmSem)
    /\ IF InvalidUrl(fmUrls[i])
          THEN /\ fmTask' = [fmTask EXCEPT ![i] = "done"]
               /\ fmRet' = [fmRet EXCEPT ![i] = GrabDesc(fmUrls[i], RespException)]
               /\ fmOrder' = Append(fmOrder, i)
               /\ UNCHANGED fmSem
          ELSE /\ fmTask' = [fmTask EXCEPT ![i] = "fetching"]
               /\ fmSem' = fmSem - 1
               /\ UNCHANGED <<fmRet, fmOrder>>
    /\ UNCHANGED <<dd, st, runVars, fmUrls, fmLimit, fmResp, fmOut>>

\* the request of task i comes back (or raises); _grab_desc returns and the
\* `async with` block gives the semaphore back
TaskComplete(i, resp) ==
    /\ fmTask[i] = "fetching"
    /\ fmTask' = [fmTask EXCEPT ![i] = "done"]
    /\ fmResp' = [fmResp EXCEPT ![i] = resp]
    /\ fmRet' = [fmRet EXCEPT ![i] = GrabDesc(fmUrls[i], resp)]
    /\ fmOrder' = Append(fmOrder, i)
    /\ fmSem' = fmSem + 1
    /\ UNCHANGED <<dd, st, runVars, fmUrls, fmLimit, fmOut>>

\* gather returns once every coroutine has returned
GatherReturn ==
    /\ fmOut = NotReturned
    /\ \A i \in 1..Len(fmUrls) : fmTask[i] = "done"
    /\ fmOut' = [returned |-> TRUE, value |-> GatherResults(fmRet, fmOrder)]
    /\ UNCHANGED <<dd, st, runVars, fmUrls, fmLimit, fmSem, fmTask, fmResp, fmRet, fmOrder>>

\* ------------------------------------------------------------------------
\* 3  Worksheet helpers                 (data_retrieval..., lines 119-132)
\* ------------------------------------------------------------------------
\* A worksheet is a grid of rows x cols cells; data holds its rows of values
\* down to the last one written (cells beyond are empty).
NewRows == 100
NewCols == 20
NoSheet  == [exists |-> FALSE, rows |-> 0, cols |-> 0, data |-> <<>>]
NewSheet == [exists |-> TRUE, rows |-> NewRows, cols |-> NewCols, data |-> <<>>]

\* ensure_worksheet_exists / ensure_ws: the worksheet, added when not found
EnsureWs(ws) == IF ws.exists THEN ws ELSE NewSheet

Take(seq, n) == SubSeq(seq, 1, Min(n, Len(seq)))

\* ws.resize(rows, cols): cells outside the new grid are dropped
Resize(ws, r, c) ==
    [ws EXCEPT !.rows = r, !.cols = c,
               !.data = [i \in 1..Min(r, Len(ws.data)) |-> Take(ws.data[i], c)]]

\* one row of ws.update: the given values over the cells the row held; a
\* None among the values goes out as a JSON null, which the Sheets API
\* skips, so that cell keeps what it held (NONE is also the empty cell)
OverlayRow(old, new) ==
    [j \in 1..(IF Len(new) > Len(old) THEN Len(new) ELSE Len(old)) |->
        IF j <= Len(new) /\ new[j] # NONE THEN new[j]
        ELSE IF j <= Len(old) THEN old[j]
        ELSE NONE]

\* ws.update(range_name="A1", values): the values written from the top-left
\* cell on; cells the values do not cover keep what they held
UpdateA1(ws, values) ==
    [ws EXCEPT !.data =
        [i \in 1..(IF Len(values) > Len(ws.data) THEN Len(values) ELSE Len(ws.data)) |->
            IF i > Len(values) THEN ws.data[i]
            ELSE IF i > Len(ws.data) THEN values[i]
            ELSE OverlayRow(ws.data[i], values[i])]]

\* the harness of the writing of one table before any use
StIdle == [k |-> 1, records |-> <<>>, ws |-> NoSheet, metas |-> <<>>,
           rows |-> <<>>, phase |-> "idle", first |-> NoSheet]

\* mutant: a second summary takes the place of the last row
AppendRowReplacing(ws, row) ==
    [ws EXCEPT !.data = IF Len(ws.data) = 0 THEN <<row>>
                        ELSE SubSeq(ws.data, 1, Len(ws.data) - 1) \o <<row>>,
               !.rows = IF ws.rows < 1 THEN 1 ELSE ws.rows]

\* mutant: the row is inserted above the rows already there
AppendRowOnTop(ws, row) ==
    [ws EXCEPT !.data = <<row>> \o ws.data,
               !.rows = IF Len(ws.data) + 1 > ws.rows THEN Len(ws.data) + 1 ELSE ws.rows]

\* ws.append_row(row): the row goes after the last row holding values
AppendRow(ws, row) ==
    [ws EXCEPT !.data = Append(ws.data, row),
               !.rows = IF Len(ws.data) + 1 > ws.rows THEN Len(ws.data) + 1 ELSE ws.rows]

\* ws.get_all_records(): the rows below the header row
GetAllRecords(ws) == IF Len(ws.data) <= 1 THEN <<>> ELSE SubSeq(ws.data, 2, Len(ws.data))

\* ------------------------------------------------------------------------
\* 6  Storage orchestrator              (data_retrieval..., lines 179-239)
\* ------------------------------------------------------------------------
CAP_NEWS == 40
CAP_TOP_STORIES == 40
CAP_TRENDS == 20
DefaultLimit == 10

NewsHeader == <<"Title", "Link", "Snippet", "Meta Description">>
TrendsHeader == <<"Query", "Value">>

\* the tabs, in the order store_data_in_google_sheets writes them
TabNews == "Google News CA"
TabTops == "Top Stories CA"
TabRising == "Google Trends Rising CA"
TabTop == "Google Trends Top CA"
TabSummaries == "Summaries CA"
\* mutant: the trends tables are written first
DataTabsTrendsFirst == <<TabRising, TabTop, TabNews, TabTops>>

DataTabs == <<TabNews, TabTops, TabRising, TabTop>>
Tabs == {TabNews, TabTops, TabRising, TabTop, TabSummaries}

\* lines 182-187 / 204-209: one 3-column row per record
ArticleRows(records) ==
    [i \in 1..Len(records) |->
        <<OrDefault(records[i].title, "No Title"),
          OrDefault(records[i].link, "No Link"),
          OrDefault(records[i].snippet, "No Snippet")>>]

\* snippet_lookup.get(link, default) with snippet_lookup = {r[1]: r[2]}
SnippetLookupGet(rows, link, default) ==
    LET hits == {i \in 1..Len(rows) : rows[i][2] = link}
    IN  IF hits = {} THEN default
        ELSE rows[CHOOSE i \in hits : \A j \in hits : j <= i][3]

\* lines 192-195 / 214-217: the 4th column of a row from its description
MetaColumn(rows, row, desc) ==
    IF StartsWith(desc, "HTTP") \/ StartsWith(desc, "Error")
        THEN SnippetLookupGet(rows, row[2], "No Meta Description")
        ELSE OrDefault(desc, "No Meta Description")

\* the rows of a news table once the descriptions metas came back
WithMeta(rows, metas) ==
    [i \in 1..Min(Len(rows), Len(metas)) |->
        Append(rows[i], MetaColumn(rows, rows[i], metas[i]))]

\* lines 226 / 234: the rows of a trends table
TrendRows(queries) ==
    Take([i \in 1..Len(queries) |-> <<queries[i].query, queries[i].value>>], CAP_TRENDS)

\* fetch_meta_descriptions(urls) as one call: the list it returns when the
\* requests come back with resps
MetaDescriptions(urls, resps) ==
    GatherResults([i \in 1..Len(urls) |-> GrabDesc(urls[i], resps[i])], <<>>)

\* ------------------------------------------------------------------------
\* 2  SerpAPI fetch helpers             (data_retrieval..., lines 65-114)
\* ------------------------------------------------------------------------
MaxAttempts == 5
BackoffBase == 10

RECURSIVE Pow2(_)
Pow2(n) == IF n = 0 THEN 1 ELSE 2 * Pow2(n - 1)

\* mutant: the wait grows by ten seconds per attempt
BackoffLinear(attempts) == (attempts + 1) * BackoffBase

\* line 110: wait = (2 ** attempts) * 10
BackoffWait(attempts) == Pow2(attempts) * BackoffBase

\* mutant: the loop goes round once more
MayRetryOnceMore(attempts) == attempts <= MaxAttempts

\* line 104: while attempts < 5
MayRetry(attempts) == attempts < MaxAttempts

Article(t, l, s) == [title |-> t, link |-> l, snippet |-> s]
Query(q, v) == [query |-> q, value |-> v]

\* what the provider may answer to the three searches
NewsPayloads ==
    { <<Article("A", "http://a", "sa"), Article("A2", "http://a", "sa2")>> }
TopsPayloads == { <<Article("X", NONE, "sx")>> }
TrendsPayloads ==
    { [rising |-> <<Query("tsx", "100")>>, top |-> <<Query("bank", "50")>>] }

\* what the pages of the links may answer during a run
PageResponses == {Response(HttpOk, " Desc A "), RespException}

\* what the text generator may answer
SummaryTexts == {"S1", "S2"}

\* ------------------------------------------------------------------------
\* Run coordinator                      (streamlit_app.py, lines 39-85)
\* ------------------------------------------------------------------------
TicksPerSecond == 2
SecondsPerHour == 3600
NeverRan == 9999
DefaultCooldown == 3
SleepAfterAppend == 1

\* an empty cell A2
NoTime == -1

NoMeta == [exists |-> FALSE, time |-> NoTime, summary |-> NONE]

\* ensure_ws("Metadata CA")
EnsureMeta(m) == IF m.exists THEN m ELSE [NoMeta EXCEPT !.exists = TRUE]

\* strftime("%Y-%m-%d %H:%M:%S"): the instant in whole seconds
FormatTime(t) == t \div TicksPerSecond

\* strptime(..., "%Y-%m-%d %H:%M:%S").replace(tzinfo=UTC): back to an instant
ParseTime(sec) == sec * TicksPerSecond

\* update_cell / cell().value: an empty text reads back as None
CellValue(text) == IF text = "" THEN NONE ELSE text

\* mutant: elapsed ticks held against the bare number of hours
CoolingNoUnits(now, last_run, cooldown_hours) ==
    IF last_run = NoTime
        THEN NeverRan < cooldown_hours
        ELSE (now - last_run) < cooldown_hours

\* lines 72-73: elapsed < cooldown_hours, elapsed in hours
Cooling(now, last_run, cooldown_hours) ==
    IF last_run = NoTime
        THEN NeverRan < cooldown_hours
        ELSE (now - last_run) < cooldown_hours * SecondsPerHour * TicksPerSecond

Procs == {1, 2}
CooldownChoices == {DefaultCooldown, 10000}

Ev(name, arg) == [ev |-> name, arg |-> arg]

\* how the invocation before this one ended: outcome, value returned and
\* cooldown_hours it was called with
NoPrev == [outcome |-> "none", ret |-> NONE, cooldown |-> 0]

\* outcome: "none" while the invocation runs (or before the first one),
\* "cached" / "fresh" once it returned the stored / the new summary,
\* "failed" when retrieval or summarisation raised, "error" when reading or
\* writing the metadata raised
LocIdle ==
    [cooldown |-> DefaultCooldown, now |-> 0, last_time |-> NoTime,
     news |-> <<>>, tops |-> <<>>, rising |-> <<>>, top |-> <<>>,
     attempts |-> 0, k |-> 0, rows |-> <<>>, dfs |-> <<>>,
     summary |-> NONE, ret |-> NONE, outcome |-> "none", prev |-> NoPrev]

\* the workbook before the first run, no invocation under way
RunIdle ==
    /\ clock = 0
    /\ meta = NoMeta
    /\ sheets = [t \in Tabs |-> NoSheet]
    /\ pc = [p \in Procs |-> "idle"]
    /\ loc = [p \in Procs |-> LocIdle]
    /\ log = [p \in Procs |-> <<>>]
    /\ calls = 0
    /\ limited = 0

Logged(p, events) == log' = [log EXCEPT ![p] = log[p] \o events]

\* what an invocation keeps once it has returned or raised
Returned(l, ret, outcome) ==
    [LocIdle EXCEPT !.cooldown = l.cooldown, !.now = l.now,
                    !.last_time = l.last_time, !.ret = ret, !.outcome = outcome,
                    !.prev = l.prev]

\* line 69: run_all(cooldown_hours) is called, delay ticks after the last
\* thing that happened
Call(p, cooldown_hours, delay) ==
    /\ pc[p] = "idle"
    /\ calls < MaxCalls
    /\ calls' = calls + 1
    /\ clock' = clock + delay
    /\ pc' = [pc EXCEPT ![p] = "get_time"]
    /\ loc' = [loc EXCEPT ![p] =
                  [LocIdle EXCEPT !.cooldown = cooldown_hours, !.now = clock',
                                  !.prev = [outcome |-> loc[p].outcome,
                                            ret |-> loc[p].ret,
                                            cooldown |-> loc[p].cooldown]]]
    /\ log' = [log EXCEPT ![p] = <<>>]
    /\ UNCHANGED <<dd, st, fetchVars, meta, sheets, limited>>

\* lines 47-48: get_last_run_info reads cell A2
ReadLastTime(p) ==
    /\ pc[p] = "get_time"
    /\ meta' = EnsureMeta(meta)
    /\ loc' = [loc EXCEPT ![p].last_time = meta.time]
    /\ pc' = [pc EXCEPT ![p] = "get_sum"]
    /\ Logged(p, <<Ev("read_meta", 1)>>)
    /\ UNCHANGED <<dd, st, fetchVars, clock, sheets, calls, limited>>

\* mutant: the summary cell is dropped from what get_last_run_info returns
LastSummaryDropped(last_time, last_sum) == NONE

\* lines 50-53: the summary get_last_run_info returns
LastSummary(last_time, last_sum) ==
    IF last_time # NoTime THEN last_sum ELSE NONE

\* lines 49-53 and 70-76: get_last_run_info reads cell B2 and returns;
\* run_all returns the stored summary when the cooldown has not elapsed
ReadLastSum(p) ==
    /\ pc[p] = "get_sum"
    /\ LET last_sum == meta.summary
           has_time == loc[p].last_time # NoTime
           last_run == IF has_time THEN ParseTime(loc[p].last_time) ELSE NoTime
           last_summary == LastSummary(loc[p].last_time, last_sum)
       IN  IF Cooling(loc[p].now, last_run, loc[p].cooldown)
              THEN /\ pc' = [pc EXCEPT ![p] = "idle"]
                   /\ loc' = [loc EXCEPT ![p] = Returned(loc[p], last_summary, "cached")]
                   /\ Logged(p, <<Ev("read_meta", 2), Ev("return", 0)>>)
              ELSE /\ pc' = [pc EXCEPT ![p] = "fetch_news"]
                   /\ UNCHANGED loc
                   /\ Logged(p, <<Ev("read_meta", 2)>>)
    /\ UNCHANGED <<dd, st, fetchVars, clock, meta, sheets, calls, limited>>

\* mutant: the tables are written as soon as the news came back
FetchNewsThenStore(p, payload) ==
    /\ pc[p] = "fetch_news"
    /\ loc' = [loc EXCEPT ![p].news = payload, ![p].k = 1]
    /\ pc' = [pc EXCEPT ![p] = "resize"]
    /\ Logged(p, <<Ev("fetch_news", 0)>>)
    /\ UNCHANGED <<dd, st, fetchVars, clock, meta, sheets, calls, limited>>

\* line 248: news = fetch_google_news()
FetchNews(p, payload) ==
    /\ pc[p] = "fetch_news"
    /\ loc' = [loc EXCEPT ![p].news = payload]
    /\ pc' = [pc EXCEPT ![p] = "fetch_tops"]
    /\ Logged(p, <<Ev("fetch_news", 0)>>)
    /\ UNCHANGED <<dd, st, fetchVars, clock, meta, sheets, calls, limited>>

\* line 249: tops = fetch_google_top_stories()
FetchTops(p, payload) ==
    /\ pc[p] = "fetch_tops"
    /\ loc' = [loc EXCEPT ![p].tops = payload]
    /\ pc' = [pc EXCEPT ![p] = "fetch_trends"]
    /\ Logged(p, <<Ev("fetch_tops", 0)>>)
    /\ UNCHANGED <<dd, st, fetchVars, clock, meta, sheets, calls, limited>>

\* lines 105-108: a trends request that is answered
TrendsAnswered(p, payload) ==
    /\ pc[p] = "fetch_trends"
    /\ loc' = [loc EXCEPT ![p].rising = payload.rising, ![p].top = payload.top,
                          ![p].k = 1]
    /\ pc' = [pc EXCEPT ![p] = "resize"]
    /\ Logged(p, <<Ev("trends_request", loc[p].attempts), Ev("trends_result", 0)>>)
    /\ UNCHANGED <<dd, st, fetchVars, clock, meta, sheets, calls, limited>>

\* lines 109-114: a trends request that raises TooManyRequestsError: sleep,
\* count the attempt, and go round the loop or raise RuntimeError
TrendsRateLimited(p) ==
    /\ pc[p] = "fetch_trends"
    /\ LET wait == BackoffWait(loc[p].attempts)
           attempts == loc[p].attempts + 1
       IN  /\ clock' = clock + wait * TicksPerSecond
           /\ IF MayRetry(attempts)
                 THEN /\ loc' = [loc EXCEPT ![p].attempts = attempts]
                      /\ UNCHANGED pc
                      /\ Logged(p, <<Ev("trends_request", loc[p].attempts),
                                     Ev("sleep", wait)>>)
                 ELSE /\ loc' = [loc EXCEPT ![p] = Returned(loc[p], NONE, "failed")]
                      /\ pc' = [pc EXCEPT ![p] = "idle"]
                      /\ Logged(p, <<Ev("trends_request", loc[p].attempts),
                                     Ev("sleep", wait), Ev("raise", attempts)>>)
    /\ limited' = IF loc[p].attempts = 0 THEN limited + 1 ELSE limited
    /\ UNCHANGED <<dd, st, fetchVars, meta, sheets, calls>>

\* the header of the k-th table store_data_in_google_sheets writes
HeaderOf(k) == IF k <= 2 THEN NewsHeader ELSE TrendsHeader

\* the 3-column rows (lines 182-188 / 204-210) whose links are looked up
DedupedRows(l, k) ==
    IF k = 1 THEN dedupe_rows(ArticleRows(l.news), 1, CAP_NEWS)
    ELSE IF k = 2 THEN dedupe_rows(ArticleRows(l.tops), 1, CAP_TOP_STORIES)
    ELSE <<>>

\* the rows of the k-th table when the pages answered with resps
TableRows(l, k, resps) ==
    IF k <= 2
        THEN LET rows == DedupedRows(l, k)
                 urls == [i \in 1..Len(rows) |-> rows[i][2]]
             IN  WithMeta(rows, MetaDescriptions(urls, resps))
        ELSE IF k = 3 THEN TrendRows(l.rising) ELSE TrendRows(l.top)

\* store_data_in_google_sheets up to the resize of its k-th table: the rows
\* are built (for the two news tables the descriptions are fetched), the
\* worksheet is got or added, and resized (line 127)
ResizeTable(p) ==
    /\ pc[p] = "resize"
    /\ \E resps \in [1..Len(DedupedRows(loc[p], loc[p].k)) -> PageResponses] :
          LET k == loc[p].k
              rows == TableRows(loc[p], k, resps)
          IN  /\ loc' = [loc EXCEPT ![p].rows = rows]
              /\ sheets' = [sheets EXCEPT ![DataTabs[k]] =
                               Resize(EnsureWs(@), Len(rows) + 1, Len(HeaderOf(k)))]
              /\ Logged(p, <<Ev("resize", k)>>)
    /\ pc' = [pc EXCEPT ![p] = "update"]
    /\ UNCHANGED <<dd, st, fetchVars, clock, meta, calls, limited>>

\* mutant: the last table is taken for written one table early
MoreTablesOffByOne(k) == k < Len(DataTabs) - 1

\* lines 197-239: tables remain to be written after the k-th
MoreTables(k) == k < Len(DataTabs)

\* lines 128-132: the update of the k-th table; after the 4th, main returns
\* and generate_summary starts
UpdateTable(p) ==
    /\ pc[p] = "update"
    /\ LET k == loc[p].k
       IN  /\ sheets' = [sheets EXCEPT ![DataTabs[k]] =
                            UpdateA1(@, <<HeaderOf(k)>> \o loc[p].rows)]
           /\ Logged(p, <<Ev("update", k)>>)
           /\ IF MoreTables(k)
                 THEN /\ loc' = [loc EXCEPT ![p].k = k + 1, ![p].rows = <<>>]
                      /\ pc' = [pc EXCEPT ![p] = "resize"]
                 ELSE /\ loc' = [loc EXCEPT ![p].k = 1, ![p].rows = <<>>,
                                            ![p].news = <<>>, ![p].tops = <<>>,
                                            ![p].rising = <<>>, ![p].top = <<>>,
                                            ![p].attempts = 0]
                      /\ pc' = [pc EXCEPT ![p] = "read"]
    /\ UNCHANGED <<dd, st, fetchVars, clock, meta, calls, limited>>

\* step2..., lines 42-45 and 84-87: read_data of the k-th table
ReadTable(p) ==
    /\ pc[p] = "read"
    /\ LET k == loc[p].k
           ws == EnsureWs(sheets[DataTabs[k]])
       IN  /\ sheets' = [sheets EXCEPT ![DataTabs[k]] = ws]
           /\ Logged(p, <<Ev("read_table", k)>>)
           /\ IF k < Len(DataTabs)
                 THEN /\ loc' = [loc EXCEPT ![p].k = k + 1,
                                            ![p].dfs = Append(@, GetAllRecords(ws))]
                      /\ UNCHANGED pc
                 ELSE /\ loc' = [loc EXCEPT ![p].k = 0,
                                            ![p].dfs = Append(@, GetAllRecords(ws))]
                      /\ pc' = [pc EXCEPT ![p] = "generate"]
    /\ UNCHANGED <<dd, st, fetchVars, clock, meta, calls, limited>>

\* step2..., lines 68-74 and 89-136: the prompt is sent, text comes back
Generate(p, text) ==
    /\ pc[p] = "generate"
    /\ loc' = [loc EXCEPT ![p].summary = text, ![p].dfs = <<>>]
    /\ pc' = [pc EXCEPT ![p] = "append"]
    /\ Logged(p, <<Ev("generate", 0)>>)
    /\ UNCHANGED <<dd, st, fetchVars, clock, meta, sheets, calls, limited>>

\* the row store_summary appends
SummaryRow(text) == <<text>>

\* step2..., lines 76-79 and 137-138: store_summary, then the sleep
StoreSummary(p) ==
    /\ pc[p] = "append"
    /\ sheets' = [sheets EXCEPT ![TabSummaries] =
                     AppendRow(EnsureWs(@), SummaryRow(loc[p].summary))]
    /\ clock' = clock + SleepAfterAppend * TicksPerSecond
    /\ pc' = [pc EXCEPT ![p] = "set_time"]
    /\ Logged(p, <<Ev("append_summary", 0), Ev("sleep", SleepAfterAppend)>>)
    /\ UNCHANGED <<dd, st, fetchVars, meta, loc, calls, limited>>

\* streamlit_app.py, lines 56-58: set_last_run_info writes cell A2
SetLastTime(p) ==
    /\ pc[p] = "set_time"
    /\ meta' = [EnsureMeta(meta) EXCEPT !.time = FormatTime(clock)]
    /\ pc' = [pc EXCEPT ![p] = "set_sum"]
    /\ Logged(p, <<Ev("write_meta", 1)>>)
    /\ UNCHANGED <<dd, st, fetchVars, clock, sheets, loc, calls, limited>>

\* streamlit_app.py, lines 59 and 85: set_last_run_info writes cell B2 and
\* run_all returns the new summary
SetLastSum(p) ==
    /\ pc[p] = "set_sum"
    /\ meta' = [meta EXCEPT !.summary = CellValue(loc[p].summary)]
    /\ pc' = [pc EXCEPT ![p] = "idle"]
    /\ loc' = [loc EXCEPT ![p] = Returned(loc[p], loc[p].summary, "fresh")]
    /\ Logged(p, <<Ev("write_meta", 2), Ev("return", 1)>>)
    /\ UNCHANGED <<dd, st, fetchVars, clock, sheets, calls, limited>>

\* where an invocation is inside get_last_run_info or set_last_run_info
MetadataPcs == {"get_time", "get_sum", "set_time", "set_sum"}

\* mutant: the failure path records the run before the error propagates
AbortStampsTime(p) ==
    /\ pc[p] # "idle"
    /\ pc' = [pc EXCEPT ![p] = "idle"]
    /\ loc' = [loc EXCEPT ![p] =
                  Returned(loc[p], NONE,
                           IF pc[p] \in MetadataPcs THEN "error" ELSE "failed")]
    /\ meta' = [EnsureMeta(meta) EXCEPT !.time = FormatTime(clock)]
    /\ Logged(p, <<Ev("raise", 0)>>)
    /\ UNCHANGED <<dd, st, fetchVars, clock, sheets, calls, limited>>

\* where an invocation is about to ask the provider
FetchPcs == {"fetch_news", "fetch_tops", "fetch_trends"}

\* what the log keeps of the call that raised: for a provider request, that
\* the provider failed (with the number of the trends attempt), then the
\* exception
FailureEvents(p) ==
    (IF pc[p] \in FetchPcs THEN <<Ev("provider_error", loc[p].attempts)>>
                            ELSE <<>>)
       \o <<Ev("raise", 0)>>

\* mutant: the retry loop of the trends fetch catches every exception
AbortRetriesProviderError(p) ==
    /\ pc[p] # "idle"
    /\ IF pc[p] = "fetch_trends" /\ MayRetry(loc[p].attempts + 1)
          THEN /\ clock' = clock + BackoffWait(loc[p].attempts) * TicksPerSecond
               /\ loc' = [loc EXCEPT ![p].attempts = loc[p].attempts + 1]
               /\ Logged(p, <<Ev("provider_error", loc[p].attempts),
                              Ev("sleep", BackoffWait(loc[p].attempts))>>)
               /\ UNCHANGED pc
          ELSE /\ pc' = [pc EXCEPT ![p] = "idle"]
               /\ loc' = [loc EXCEPT ![p] =
                             Returned(loc[p], NONE,
                                      IF pc[p] \in MetadataPcs THEN "error"
                                                               ELSE "failed")]
               /\ Logged(p, FailureEvents(p))
               /\ UNCHANGED clock
    /\ UNCHANGED <<dd, st, fetchVars, meta, sheets, calls, limited>>

\* the call the invocation is about to make (to the workbook, the provider
\* or the text generator) raises something the code does not catch
\* (for the trends request: anything but TooManyRequestsError), and nothing
\* in main or run_all catches it
Abort(p) ==
    /\ pc[p] # "idle"
    /\ pc' = [pc EXCEPT ![p] = "idle"]
    /\ loc' = [loc EXCEPT ![p] =
                  Returned(loc[p], NONE,
                           IF pc[p] \in MetadataPcs THEN "error" ELSE "failed")]
    /\ Logged(p, FailureEvents(p))
    /\ UNCHANGED <<dd, st, fetchVars, clock, meta, sheets, calls, limited>>

\* when run_all may be called again: one tick short of the default cooldown
\* or four hours after the last thing that happened
Delays ==
    {DefaultCooldown * SecondsPerHour * TicksPerSecond - 1,
     4 * SecondsPerHour * TicksPerSecond}

\* two sessions press the button at the same instant or one tick apart
ConcDelays == {0, 1}

\* one step of invocation p once it has been called, the provider's
\* rate-limit answer apart
RunStep(p) ==
    \/ ReadLastTime(p)
    \/ ReadLastSum(p)
    \/ \E payload \in NewsPayloads : FetchNews(p, payload)
    \/ \E payload \in TopsPayloads : FetchTops(p, payload)
    \/ \E payload \in TrendsPayloads : TrendsAnswered(p, payload)
    \/ ResizeTable(p)
    \/ UpdateTable(p)
    \/ ReadTable(p)
    \/ \E text \in SummaryTexts : Generate(p, text)
    \/ StoreSummary(p)
    \/ SetLastTime(p)
    \/ SetLastSum(p)
    \/ Abort(p)

\* ------------------------------------------------------------------------
\* Sequential use: one invocation at a time
\* ------------------------------------------------------------------------
Init ==
    /\ dd = DDIdle
    /\ st = StIdle
    /\ FetchIdle
    /\ RunIdle

\* the provider goes on rate-limiting a trends fetch it has rate-limited
\* twice in a row, until the fetch gives up
Storm(p) == pc[p] = "fetch_trends" /\ loc[p].attempts >= 2

\* the provider may start rate-limiting a trends fetch MaxRateLimits times
Next ==
    \/ \E cd \in CooldownChoices, d \in Delays : Call(1, cd, d)
    \/ (~Storm(1) /\ RunStep(1))
    \/ ((limited < MaxRateLimits \/ loc[1].attempts >= 1) /\ TrendsRateLimited(1))

Spec == Init /\ [][Next]_vars

\* ------------------------------------------------------------------------
\* One invocation on a new workbook, the provider free to rate-limit
\* ------------------------------------------------------------------------
NextTrends ==
    \/ \E cd \in CooldownChoices, d \in Delays : (calls = 0 /\ Call(1, cd, d))
    \/ RunStep(1)
    \/ TrendsRateLimited(1)

SpecTrends == Init /\ [][NextTrends]_vars

\* ------------------------------------------------------------------------
\* Two invocations at the same time (two sessions press the button)
\* ------------------------------------------------------------------------
NextConc ==
    \/ \E p \in Procs, cd \in CooldownChoices, d \in ConcDelays :
          (loc[p].outcome = "none" /\ Call(p, cd, d))
    \/ \E p \in Procs : RunStep(p)
    \/ \E p \in Procs : (limited < MaxRateLimits /\ loc[p].attempts = 0
                              /\ TrendsRateLimited(p))

SpecConc == Init /\ [][NextConc]_vars

\* ------------------------------------------------------------------------
\* Harness: fetch_meta_descriptions on every bounded url list and limit
\* ------------------------------------------------------------------------
FMUrlPool == {"https://b", "No Link"}
FMUrlLists == UNION {[1..n -> FMUrlPool] : n \in 0..MaxUrls}
FMResponses ==
    {Response(HttpOk, " Desc A "), Response(HttpOk, NONE),
     Response(404, NONE), RespException}

InitFetch ==
    /\ dd = DDIdle
    /\ st = StIdle
    /\ RunIdle
    /\ \E urls \in FMUrlLists, limit \in 1..MaxLimit : FetchStart(urls, limit)

NextFetch ==
    \/ \E i \in 1..Len(fmUrls) : TaskAcquire(i)
    \/ \E i \in 1..Len(fmUrls), resp \in FMResponses : TaskComplete(i, resp)
    \/ GatherReturn

SpecFetch == InitFetch /\ [][NextFetch]_vars

\* The event loop runs every ready coroutine, the semaphore wakes its waiters
\* in turn, and every request ends within its timeout.
FairSpecFetch ==
    /\ SpecFetch
    /\ \A i \in 1..MaxUrls : SF_vars(i <= Len(fmUrls) /\ TaskAcquire(i))
    /\ \A i \in 1..MaxUrls :
          WF_vars(i <= Len(fmUrls) /\ \E resp \in FMResponses : TaskComplete(i, resp))
    /\ WF_vars(GatherReturn)

\* ------------------------------------------------------------------------
\* Harness: dedupe_rows applied to every bounded input
\* ------------------------------------------------------------------------
DDTitles == {"T1", "T2"}
DDLinks  == {"http://a", "http://b"}
DDRowPool == {<<t, l, "snip">> : t \in DDTitles, l \in DDLinks}
DDRowLists == UNION {[1..n -> DDRowPool] : n \in 0..MaxRows}

InitDedupe ==
    /\ st = StIdle
    /\ FetchIdle
    /\ RunIdle
    /\ \E rows \in DDRowLists, k \in 0..MaxCap :
        dd = [rows |-> rows, key_index |-> 1, keep_n |-> k, out |-> <<>>,
              done |-> FALSE]

CallDedupe ==
    /\ ~dd.done
    /\ UNCHANGED <<st, fetchVars, runVars>>
    /\ dd' = [dd EXCEPT !.out  = dedupe_rows(dd.rows, dd.key_index, dd.keep_n),
                        !.done = TRUE]

NextDedupe == CallDedupe

SpecDedupe == InitDedupe /\ [][NextDedupe]_vars

\* ------------------------------------------------------------------------
\* Harness: store_data_in_google_sheets writes one table, then writes it
\* again, over a worksheet that held something else
\* ------------------------------------------------------------------------
\* provider records: two sharing a link, some without snippet, some without
\* link
StArticles ==
    {Article("A", "http://a", "sa"), Article("A2", "http://a", NONE),
     Article("B", "https://b", NONE), Article("X", NONE, "sx"),
     Article("Y", NONE, NONE)}

\* related queries, one of them without value
StQueries == {Query("tsx", "100"), Query("bank", NONE)}

StRecordLists(pool) == UNION {[1..n -> pool] : n \in 0..MaxRecords}

\* what the pages answer
StResponses == {Response(HttpOk, " Desc A "), Response(404, NONE), RespException}

\* what the worksheet held before: not there, emptied, or a larger table
StPrior ==
    {NoSheet,
     [exists |-> TRUE, rows |-> 1, cols |-> 1, data |-> <<>>],
     [exists |-> TRUE, rows |-> 6, cols |-> 5,
      data |-> [i \in 1..6 |-> [j \in 1..5 |-> "old"]]]}

\* the tables the harness writes: Google News (1) and Google Trends Rising (3)
StTables == {1, 3}

InitStore ==
    /\ dd = DDIdle
    /\ FetchIdle
    /\ RunIdle
    /\ \E k \in StTables, ws \in StPrior :
         \E records \in StRecordLists(IF k = 1 THEN StArticles ELSE StQueries) :
            st = [StIdle EXCEPT !.k = k, !.records = records, !.ws = ws,
                                !.phase = "build"]

\* the arguments store_data_in_google_sheets got, as far as table st.k goes
StArgs == [news |-> st.records, tops |-> <<>>, rising |-> st.records, top |-> <<>>]

\* lines 182-195 / 226: the rows of the table are built
StBuild ==
    /\ st.phase = "build"
    /\ \E resps \in [1..Len(DedupedRows(StArgs, st.k)) -> StResponses] :
          LET rows == DedupedRows(StArgs, st.k)
              urls == [i \in 1..Len(rows) |-> rows[i][2]]
          IN  st' = [st EXCEPT !.metas = MetaDescriptions(urls, resps),
                               !.rows = TableRows(StArgs, st.k, resps),
                               !.phase = "resize"]
    /\ UNCHANGED <<dd, fetchVars, runVars>>

\* line 127 (and 119-123 on the way)
StResize ==
    /\ st.phase \in {"resize", "resize_again"}
    /\ st' = [st EXCEPT
                 !.ws = Resize(EnsureWs(@), Len(st.rows) + 1, Len(HeaderOf(st.k))),
                 !.phase = IF st.phase = "resize" THEN "update" ELSE "update_again"]
    /\ UNCHANGED <<dd, fetchVars, runVars>>

\* lines 128-132; the harness then writes the same table once more
StUpdate ==
    /\ st.phase \in {"update", "update_again"}
    /\ LET ws == UpdateA1(st.ws, <<HeaderOf(st.k)>> \o st.rows)
       IN  st' = [st EXCEPT
                    !.ws = ws,
                    !.first = IF st.phase = "update" THEN ws ELSE @,
                    !.phase = IF st.phase = "update" THEN "resize_again" ELSE "done"]
    /\ UNCHANGED <<dd, fetchVars, runVars>>

NextStore == StBuild \/ StResize \/ StUpdate

SpecStore == InitStore /\ [][NextStore]_vars

\* ------------------------------------------------------------------------
\* Claim C7
\* ------------------------------------------------------------------------
\* Indices of the rows that are the first occurrence of their key.
FirstIdx(rows, ki) ==
    {i \in 1..Len(rows) : \A j \in 1..(i - 1) : rows[j][ki + 1] # rows[i][ki + 1]}

DistinctKeys(rows, ki) == {rows[i][ki + 1] : i \in 1..Len(rows)}

\* out is the first n first-occurrence rows of rows, in input order
IsFirstSeenPrefix(out, rows, ki, n) ==
    /\ Len(out) = n
    /\ \E f \in [1..n -> FirstIdx(rows, ki)] :
          /\ \A a \in 1..n : out[a] = rows[f[a]]
          /\ \A a \in 1..n :
                Cardinality({i \in FirstIdx(rows, ki) : i < f[a]}) = a - 1

NoDuplicateKeys(out, ki) ==
    \A a, b \in 1..Len(out) : a # b => out[a][ki + 1] # out[b][ki + 1]

\* C7: for every row list and every cap k, dedupe_rows returns exactly
\* min(k, number of distinct keys) rows, in first-seen order, without
\* duplicate keys.
C7_DedupeLengthIsMin ==
    dd.done =>
        /\ Len(dd.out) = Min(dd.keep_n, Cardinality(DistinctKeys(dd.rows, dd.key_index)))
        /\ IsFirstSeenPrefix(dd.out, dd.rows, dd.key_index, Len(dd.out))
        /\ NoDuplicateKeys(dd.out, dd.key_index)

\* The same for caps k >= 1 (the only caps the callers pass).
C7_DedupePositiveCap ==
    (dd.done /\ dd.keep_n >= 1) =>
        /\ Len(dd.out) = Min(dd.keep_n, Cardinality(DistinctKeys(dd.rows, dd.key_index)))
        /\ IsFirstSeenPrefix(dd.out, dd.rows, dd.key_index, Len(dd.out))
        /\ NoDuplicateKeys(dd.out, dd.key_index)

\* ------------------------------------------------------------------------
\* Claim C8
\* ------------------------------------------------------------------------
AllTasksDone == \A i \in 1..Len(fmUrls) : fmTask[i] = "done"

\* C8: the list fetch_meta_descriptions returns is as long as the url list
\* and its element i is the description computed for url i from what the
\* network answered to request i, whatever order the requests ended in.
C8_ResultsFollowInputOrder ==
    fmOut.returned =>
        /\ Len(fmOut.value) = Len(fmUrls)
        /\ \A i \in 1..Len(fmUrls) :
              fmOut.value[i] = GrabDesc(fmUrls[i], fmResp[i])

\* three requests that ended in another order than they were listed, one of
\* them with an exception, and the list has been returned
C8_Witness ==
    /\ fmOut.returned
    /\ Len(fmUrls) = 3
    /\ fmOrder = <<3, 1, 2>>
    /\ fmResp[1].kind = "exc"
    /\ fmResp[3].kind = "resp" /\ fmResp[3].status = HttpOk
    /\ fmOut.value[1] = "Error Fetching Description"
    /\ fmOut.value[3] = "Desc A"

\* ------------------------------------------------------------------------
\* Claim C9
\* ------------------------------------------------------------------------
\* requests sent and not yet ended
InFlight == Cardinality({i \in 1..Len(fmUrls) : fmTask[i] = "fetching"})

\* C9: never more than limit requests are in flight, and every coroutine
\* ends, with the semaphore fully given back and the list returned.
C9_BoundedAndComplete ==
    /\ [](InFlight <= fmLimit)
    /\ <>(AllTasksDone /\ fmSem = fmLimit /\ fmOut.returned)

\* the limit binds: it is reached while a coroutine still waits, after an
\* earlier request ended with an exception and gave the semaphore back
C9_Witness ==
    /\ InFlight = fmLimit
    /\ \E i \in 1..Len(fmUrls) : fmTask[i] = "waiting"
    /\ \E i \in 1..Len(fmUrls) : fmTask[i] = "done" /\ fmResp[i].kind = "exc"

\* ------------------------------------------------------------------------
\* Claims about the run coordinator
\* ------------------------------------------------------------------------
HasEv(l, name) == \E i \in DOMAIN l : l[i].ev = name

\* the stored timestamp exists and puts invocation p, called at loc[p].now
\* with loc[p].cooldown, inside the cooldown window
StoredCooling(p) ==
    /\ meta.time # NoTime
    /\ loc[p].now - ParseTime(meta.time)
          < loc[p].cooldown * SecondsPerHour * TicksPerSecond

\* what a gated invocation may do: read the two metadata cells and return
GateEvents == {"read_meta", "return"}

\* C1: an invocation made while a timestamp is stored and less than
\* cooldown_hours have passed since it changes neither the metadata nor any
\* worksheet in any of its steps, never enters the pipeline, and, unless a
\* metadata read raises, returns exactly the stored summary having done
\* nothing but read the two metadata cells.
C1_CoolingReturnsStored ==
    [][ (pc[1] \in {"get_time", "get_sum"} /\ StoredCooling(1))
          => /\ meta' = meta
             /\ sheets' = sheets
             /\ pc'[1] \in {"get_time", "get_sum", "idle"}
             /\ (pc'[1] = "idle" /\ loc'[1].outcome # "error")
                   => /\ loc'[1].outcome = "cached"
                      /\ loc'[1].ret = meta.summary
                      /\ \A i \in DOMAIN log'[1] : log'[1][i].ev \in GateEvents
       ]_vars

\* a call one tick short of three hours after a fresh run returned that
\* run's summary
C1_Witness ==
    /\ pc[1] = "idle"
    /\ loc[1].outcome = "cached"
    /\ loc[1].prev.outcome = "fresh"
    /\ loc[1].cooldown = DefaultCooldown
    /\ loc[1].ret # NONE
    /\ loc[1].ret = meta.summary
    /\ loc[1].now - ParseTime(meta.time)
          >= (DefaultCooldown - 1) * SecondsPerHour * TicksPerSecond
    /\ log[1] = <<Ev("read_meta", 1), Ev("read_meta", 2), Ev("return", 0)>>

\* the events of a log other than the provider's rate-limit round trips
\* and the sleeps
RECURSIVE Core(_)
Core(l) ==
    IF l = <<>> THEN <<>>
    ELSE IF Head(l).ev \in {"trends_request", "sleep"} THEN Core(Tail(l))
    ELSE <<Head(l)>> \o Core(Tail(l))

\* the order of a run that goes through: retrieval, summarisation, the
\* metadata write, the return
SuccessOrder ==
    <<Ev("read_meta", 1), Ev("read_meta", 2),
      Ev("fetch_news", 0), Ev("fetch_tops", 0), Ev("trends_result", 0),
      Ev("resize", 1), Ev("update", 1), Ev("resize", 2), Ev("update", 2),
      Ev("resize", 3), Ev("update", 3), Ev("resize", 4), Ev("update", 4),
      Ev("read_table", 1), Ev("read_table", 2), Ev("read_table", 3),
      Ev("read_table", 4), Ev("generate", 0), Ev("append_summary", 0),
      Ev("write_meta", 1), Ev("write_meta", 2), Ev("return", 1)>>

LastRow(ws) == ws.data[Len(ws.data)]

\* C2: when an invocation that found the cooldown elapsed has returned the
\* new summary, its events were, in this order: the three fetches, the four
\* table overwrites, the four table reads, the generation, the append to
\* Summaries, the write of the timestamp cell, the write of the summary
\* cell, the return; the timestamp cell holds the time of the write, and
\* the summary cell, the last row of Summaries and the returned value are
\* the summary generated.
C2_SuccessOrder ==
    (pc[1] = "idle" /\ loc[1].outcome = "fresh")
       => /\ Core(log[1]) = SuccessOrder
          /\ meta.time = FormatTime(clock)
          /\ meta.summary = loc[1].ret
          /\ LastRow(sheets[TabSummaries]) = <<loc[1].ret>>
          /\ loc[1].ret \in SummaryTexts

\* a second full run, four hours after the first, rate-limited once
C2_Witness ==
    /\ pc[1] = "idle"
    /\ loc[1].outcome = "fresh"
    /\ loc[1].prev.outcome = "fresh"
    /\ loc[1].ret # loc[1].prev.ret
    /\ HasEv(log[1], "trends_result")
    /\ \E i \in DOMAIN log[1] : log[1][i] = Ev("sleep", 10)
    /\ Len(sheets[TabSummaries].data) = 2

\* C3: when an invocation that found the cooldown elapsed has raised during
\* retrieval or summarisation, the stored timestamp is the one it read at
\* its start; and the invocation after it, called with the same
\* cooldown_hours, enters the pipeline again unless its own metadata read
\* raises.
C3_FailedRunKeepsWindowOpen ==
    /\ [](  (pc[1] = "idle" /\ loc[1].outcome = "failed")
             => meta.time = loc[1].last_time)
    /\ [][ (/\ pc[1] = "get_sum"
            /\ pc'[1] # "get_sum"
            /\ loc[1].prev.outcome = "failed"
            /\ loc[1].prev.cooldown = loc[1].cooldown
            /\ loc'[1].outcome # "error")
             => pc'[1] = "fetch_news"
         ]_vars

\* a run succeeded, the next one raised in the pipeline, and the one after
\* it, less than three hours later, is in the pipeline again
C3_Witness ==
    /\ pc[1] = "fetch_news"
    /\ loc[1].prev.outcome = "failed"
    /\ loc[1].prev.cooldown = loc[1].cooldown
    /\ meta.time # NoTime
    /\ meta.summary # NONE
    /\ calls = 3

WroteCell(l, c) == \E i \in DOMAIN l : l[i] = Ev("write_meta", c)

\* C4: after any invocation, returned or raised, the timestamp cell and the
\* summary cell were either both written by it or both left as they were.
\* (Violated: the two cells are written by two update_cell calls, and the
\* second one can raise after the first went through.)
C4_MetadataNeverPartial ==
    (pc[1] = "idle" /\ loc[1].outcome # "none")
       => (WroteCell(log[1], 1) <=> WroteCell(log[1], 2))

\* the invocation before this one returned a summary, newly generated or
\* taken from the metadata
AfterReturnOf(p) ==
    /\ loc[p].prev.outcome \in {"fresh", "cached"}
    /\ loc[p].prev.ret # NONE

\* C5: invocations one after the other: once an invocation has returned
\* summary S (newly generated, or S repeated by a gated call), the next
\* invocation, if made while the stored timestamp is less than its
\* cooldown_hours old, changes neither the metadata nor any worksheet in
\* any of its steps and, unless a metadata read raises, returns S again.
\* By induction this covers any number of repeated calls after a
\* successful run.
C5_RepeatedCallsReturnSame ==
    [][ (pc[1] \in {"get_time", "get_sum"} /\ AfterReturnOf(1)
           /\ StoredCooling(1))
          => /\ UNCHANGED <<meta, sheets>>
             /\ (pc'[1] = "idle" /\ loc'[1].outcome # "error")
                   => /\ loc'[1].outcome = "cached"
                      /\ loc'[1].ret = loc[1].prev.ret
       ]_vars

\* a successful run followed by two gated calls, both returning its summary
C5_Witness ==
    /\ pc[1] = "idle"
    /\ calls = 3
    /\ loc[1].outcome = "cached"
    /\ loc[1].prev.outcome = "cached"
    /\ loc[1].ret = loc[1].prev.ret
    /\ loc[1].ret \in SummaryTexts
    /\ Len(sheets[TabSummaries].data) = 1
    /\ \A k \in DOMAIN DataTabs : Len(sheets[DataTabs[k]].data) >= 1

\* ------------------------------------------------------------------------
\* Claims about two invocations at the same time
\* ------------------------------------------------------------------------
\* the instant get_last_run_info handed to invocation p
LastRunRead(p) ==
    IF loc[p].last_time = NoTime THEN NoTime ELSE ParseTime(loc[p].last_time)

\* C6: nothing keeps two invocations apart: an invocation is in the
\* pipeline exactly on the strength of the timestamp it read itself,
\* whatever the other one is doing; each append_row of either invocation
\* added a row to Summaries; and an invocation that returned a new summary
\* went through the whole pipeline. So the state where both read the
\* metadata before either wrote it, both ran the whole pipeline and
\* Summaries got two rows (C6_Witness) is reachable.
C6_NothingExcludesDoubleRun ==
    /\ \A p \in Procs :
          pc[p] \notin {"idle", "get_time", "get_sum"}
             => ~Cooling(loc[p].now, LastRunRead(p), loc[p].cooldown)
    /\ Len(sheets[TabSummaries].data)
          = Cardinality({p \in Procs : HasEv(log[p], "append_summary")})
    /\ \A p \in Procs :
          (pc[p] = "idle" /\ loc[p].outcome = "fresh")
             => Core(log[p]) = SuccessOrder

\* both invocations, called at the same instant, found no timestamp, ran the
\* whole pipeline and returned; Summaries has two rows
C6_Witness ==
    /\ \A p \in Procs :
          /\ pc[p] = "idle"
          /\ loc[p].outcome = "fresh"
          /\ loc[p].last_time = NoTime
          /\ loc[p].cooldown = DefaultCooldown
          /\ Core(log[p]) = SuccessOrder
    /\ loc[1].now = loc[2].now
    /\ Len(sheets[TabSummaries].data) = 2
    /\ meta.time # NoTime

\* ------------------------------------------------------------------------
\* Claims about the trends fetch
\* ------------------------------------------------------------------------
\* the log up to and including the result of the trends fetch
RECURSIVE UpToResult(_)
UpToResult(l) ==
    IF l = <<>> THEN <<>>
    ELSE IF Head(l).ev = "trends_result" THEN <<Head(l)>>
    ELSE <<Head(l)>> \o UpToResult(Tail(l))

\* what precedes the trends fetch in an invocation
BeforeTrends ==
    <<Ev("read_meta", 1), Ev("read_meta", 2), Ev("fetch_news", 0),
      Ev("fetch_tops", 0)>>

\* the sleeps the claim lists, in seconds
ClaimedSleeps == <<10, 20, 40, 80>>

\* requests 0..j-1 rate-limited, each followed by its sleep, request j
\* answered
RECURSIVE RetriedThenAnswered(_, _)
RetriedThenAnswered(i, j) ==
    IF i = j THEN <<Ev("trends_request", j), Ev("trends_result", 0)>>
    ELSE <<Ev("trends_request", i), Ev("sleep", ClaimedSleeps[i + 1])>>
            \o RetriedThenAnswered(i + 1, j)

RECURSIVE SumTo(_, _)
SumTo(seq, n) == IF n = 0 THEN 0 ELSE seq[n] + SumTo(seq, n - 1)

\* C10: when the trends fetch has returned, for some j <= 4 the requests
\* numbered 0..j-1 were rate-limited and request j answered, each
\* rate-limited request was followed, before the next request, by a sleep
\* of 10, 20, 40, 80 seconds in this order, there were no other sleeps or
\* requests, and the fetch returned the rising and top lists of the answer;
\* right after the fetch the clock has advanced by the sum of these sleeps.
C10_BackoffSchedule ==
    HasEv(log[1], "trends_result")
       => \E j \in 0..4 :
             /\ UpToResult(log[1]) = BeforeTrends \o RetriedThenAnswered(0, j)
             /\ (pc[1] = "resize" /\ loc[1].k = 1)
                   => /\ loc[1].attempts = j
                      /\ clock = loc[1].now + SumTo(ClaimedSleeps, j) * TicksPerSecond
                      /\ [rising |-> loc[1].rising, top |-> loc[1].top]
                            \in TrendsPayloads

\* four rate-limits, sleeps of 10, 20, 40 and 80 seconds, then the answer
C10_Witness ==
    /\ pc[1] = "resize"
    /\ loc[1].k = 1
    /\ loc[1].attempts = 4
    /\ loc[1].rising # <<>>
    /\ UpToResult(log[1]) = BeforeTrends \o
          <<Ev("trends_request", 0), Ev("sleep", 10),
            Ev("trends_request", 1), Ev("sleep", 20),
            Ev("trends_request", 2), Ev("sleep", 40),
            Ev("trends_request", 3), Ev("sleep", 80),
            Ev("trends_request", 4), Ev("trends_result", 0)>>
    /\ clock = loc[1].now + 150 * TicksPerSecond

\* positions of the log holding the event name
EvIdx(l, name) == {i \in DOMAIN l : l[i].ev = name}

\* requests of the trends fetch the provider answered with a rate-limit:
\* those followed by a sleep
RateLimitedIdx(l) ==
    {i \in EvIdx(l, "trends_request") : i < Len(l) /\ l[i + 1].ev = "sleep"}

\* C11: the trends fetch issues at most five provider requests; when five
\* requests in a row were rate-limited, the fetch has raised, the invocation
\* that called it is over without a result, nothing of the workbook was
\* written by it, and the request numbered 4 is the last thing it asked.
C11_AtMostFiveRequests ==
    /\ Cardinality(EvIdx(log[1], "trends_request")) <= 5
    /\ \A i \in EvIdx(log[1], "trends_request") : log[1][i].arg \in 0..4
    /\ Cardinality(RateLimitedIdx(log[1])) = 5
          => /\ pc[1] = "idle"
             /\ loc[1].outcome = "failed"
             /\ loc[1].ret = NONE
             /\ log[1][Len(log[1])].ev = "raise"
             /\ EvIdx(log[1], "trends_result") = {}
             /\ EvIdx(log[1], "resize") = {}
             /\ \A t \in Tabs : sheets[t] = NoSheet
             /\ meta.time = NoTime

\* five requests, five rate-limits, then the error
C11_Witness ==
    /\ pc[1] = "idle"
    /\ loc[1].outcome = "failed"
    /\ log[1] = BeforeTrends \o
          <<Ev("trends_request", 0), Ev("sleep", 10),
            Ev("trends_request", 1), Ev("sleep", 20),
            Ev("trends_request", 2), Ev("sleep", 40),
            Ev("trends_request", 3), Ev("sleep", 80),
            Ev("trends_request", 4), Ev("sleep", 160),
            Ev("raise", 5)>>

RECURSIVE SleepSum(_)
SleepSum(l) ==
    IF l = <<>> THEN 0
    ELSE (IF Head(l).ev = "sleep" THEN Head(l).arg ELSE 0) + SleepSum(Tail(l))

\* C12: a provider failure that is not a rate-limit, at the news fetch, the
\* top-stories fetch or any attempt of the trends fetch, is followed in the
\* invocation's log by the exception and nothing else: no sleep, no further
\* request. The invocation is over without a result, the only time that
\* passed is that of the sleeps after earlier rate-limits, and no worksheet
\* was written.
C12_ProviderErrorPropagates ==
    \A i \in EvIdx(log[1], "provider_error") :
        /\ Len(log[1]) = i + 1
        /\ log[1][i + 1] = Ev("raise", 0)
        /\ pc[1] = "idle"
        /\ loc[1].outcome = "failed"
        /\ loc[1].ret = NONE
        /\ Cardinality(EvIdx(log[1], "trends_request")) = log[1][i].arg
        /\ Cardinality(EvIdx(log[1], "sleep")) = log[1][i].arg
        /\ clock = loc[1].now + SleepSum(log[1]) * TicksPerSecond
        /\ \A t \in Tabs : sheets[t] = NoSheet
        /\ meta.time = NoTime

\* the third trends request fails with something else than a rate-limit,
\* after two rate-limited ones
C12_Witness ==
    /\ pc[1] = "idle"
    /\ loc[1].outcome = "failed"
    /\ log[1] = BeforeTrends \o
          <<Ev("trends_request", 0), Ev("sleep", 10),
            Ev("trends_request", 1), Ev("sleep", 20),
            Ev("provider_error", 2), Ev("raise", 0)>>

\* ------------------------------------------------------------------------
\* Claims about the writing of the tables
\* ------------------------------------------------------------------------
\* an overwrite_worksheet call of the harness has just completed
StWritten == st.phase \in {"resize_again", "done"}

\* the table is what overwrite_worksheet was given, and nothing else
StExact ==
    /\ st.ws.exists
    /\ st.ws.rows = Len(st.rows) + 1
    /\ st.ws.cols = Len(HeaderOf(st.k))
    /\ st.ws.data = <<HeaderOf(st.k)>> \o st.rows

StHasNone == \E i \in DOMAIN st.rows : \E j \in DOMAIN st.rows[i] : st.rows[i][j] = NONE

\* C13: after a completed overwrite_worksheet(ws, header, rows) the table
\* has len(rows)+1 rows and len(header) columns and holds exactly
\* [header] + rows, whatever it held before, and the same overwrite done a
\* second time leaves it as it is.
\* (Violated: a None in rows is not written, so a cell of a table that was
\* larger keeps its old value.)
C13_OverwriteExact ==
    /\ StWritten => StExact
    /\ st.phase = "done" => st.ws = st.first

\* what holds of overwrite_worksheet: the claim for rows without None, and
\* the second overwrite changing nothing for all rows
C13_OverwriteExactWithoutNone ==
    /\ (StWritten /\ ~StHasNone) => StExact
    /\ StWritten => (st.ws.rows = Len(st.rows) + 1 /\ st.ws.cols = Len(HeaderOf(st.k)))
    /\ st.phase = "done" => st.ws = st.first

\* the rows of the news table of the harness have been built
StNewsBuilt == st.k = 1 /\ st.phase # "build"

\* the provider record row i of the table comes from: the first one with
\* the row's link
StRecordOf(i) ==
    LET hits == {n \in DOMAIN st.records :
                    OrDefault(st.records[n].link, "No Link") = st.rows[i][2]}
    IN  st.records[CHOOSE n \in hits : \A m \in hits : n <= m]

StEnrichmentFailed(i) ==
    StartsWith(st.metas[i], "HTTP") \/ StartsWith(st.metas[i], "Error")

\* C14: in a news or top-stories table, a row whose enrichment result
\* starts with "HTTP" or "Error" has as 4th column the snippet of its
\* record, or "No Meta Description" when the record has no snippet; any
\* other row has the enrichment result.
\* (Violated: a record without snippet gets "No Snippet".)
C14_SnippetFallback ==
    StNewsBuilt =>
       \A i \in DOMAIN st.rows :
          st.rows[i][4] =
             IF StEnrichmentFailed(i)
                THEN IF StRecordOf(i).snippet # NONE
                        THEN StRecordOf(i).snippet
                        ELSE "No Meta Description"
                ELSE st.metas[i]

\* what the code does: the fallback is the row's 3rd column, which is
\* "No Snippet" for a record without snippet
C14_FallbackIsThirdColumn ==
    StNewsBuilt =>
       /\ Len(st.metas) = Len(st.rows)
       /\ \A i \in DOMAIN st.rows :
             /\ st.rows[i][3] = OrDefault(StRecordOf(i).snippet, "No Snippet")
             /\ st.rows[i][4] =
                   IF StEnrichmentFailed(i) THEN st.rows[i][3] ELSE st.metas[i]

\* ------------------------------------------------------------------------
\* Claims about a run that fails part of the way
\* ------------------------------------------------------------------------
\* the order the claims give for the four data tables
ClaimedOrder ==
    <<"Google News CA", "Top Stories CA", "Google Trends Rising CA",
      "Google Trends Top CA">>

\* the overwrites of a complete store phase, as events
StoreOrder ==
    <<Ev("resize", 1), Ev("update", 1), Ev("resize", 2), Ev("update", 2),
      Ev("resize", 3), Ev("update", 3), Ev("resize", 4), Ev("update", 4)>>

RECURSIVE StoreEvents(_)
StoreEvents(l) ==
    IF l = <<>> THEN <<>>
    ELSE IF Head(l).ev \in {"resize", "update"}
            THEN <<Head(l)>> \o StoreEvents(Tail(l))
            ELSE StoreEvents(Tail(l))

IsPrefix(a, b) == Len(a) <= Len(b) /\ SubSeq(b, 1, Len(a)) = a

\* invocation 1 is writing the tables
Storing == pc[1] \in {"resize", "update"}

\* C15: an invocation writes the data tables in the order Google News, Top
\* Stories, Google Trends Rising, Google Trends Top: table j changes only
\* in the step that resizes or updates it, when the invocation is at its
\* j-th table, and the number of the table it is at never goes down; the
\* update of table j leaves it holding the header and the rows of this run;
\* the step in which a call raises changes no worksheet and no metadata;
\* and while the tables are written neither Summaries nor the metadata
\* changes. So when the run fails at its k-th table, tables 1..k-1 hold
\* this run's content, tables k+1..4 and Summaries and the metadata are as
\* they were before the run.
C15_PartialStoreNotRolledBack ==
    /\ [] IsPrefix(StoreEvents(log[1]), StoreOrder)
    /\ [][ /\ \A j \in 1..4 :
                sheets'[ClaimedOrder[j]] # sheets[ClaimedOrder[j]]
                   => (Storing /\ loc[1].k = j)
           /\ (Storing /\ pc'[1] \in {"resize", "update"})
                => loc'[1].k >= loc[1].k
           /\ (pc[1] = "update" /\ pc'[1] # "idle")
                => /\ sheets'[ClaimedOrder[loc[1].k]].data
                        = <<HeaderOf(loc[1].k)>> \o loc[1].rows
                   /\ sheets'[ClaimedOrder[loc[1].k]].rows = Len(loc[1].rows) + 1
           /\ (pc[1] # "idle" /\ pc'[1] = "idle" /\ loc'[1].outcome = "failed")
                => (sheets' = sheets /\ meta' = meta)
           /\ Storing
                => (sheets'[TabSummaries] = sheets[TabSummaries] /\ meta' = meta)
         ]_vars

\* the run after a successful one fails between the resize and the update
\* of its third table: two tables written, the third emptied, the fourth,
\* Summaries and the metadata as the first run left them
C15_Witness ==
    /\ pc[1] = "idle"
    /\ loc[1].outcome = "failed"
    /\ loc[1].prev.outcome = "fresh"
    /\ StoreEvents(log[1]) = SubSeq(StoreOrder, 1, 5)
    /\ Len(sheets[TabNews].data) = 2
    /\ Len(sheets[TabTops].data) = 2
    /\ sheets[TabTop].data = <<TrendsHeader, <<"bank", "50">> >>
    /\ Len(sheets[TabSummaries].data) = 1
    /\ meta.summary = sheets[TabSummaries].data[1][1]

\* the link column of the records handed to the harness, "No Link" for a
\* record without link
StLinks == [n \in DOMAIN st.records |-> OrDefault(st.records[n].link, "No Link")]

\* the records that are the first with their link
StFirsts == {n \in DOMAIN st.records : \A m \in 1..(n - 1) : StLinks[m] # StLinks[n]}

\* the index of the first record with the link of data row i
StFirstOf(i) ==
    CHOOSE n \in StFirsts : StLinks[n] = st.ws.data[i + 1][2]

\* C16: after a completed write of the Google News table it holds the
\* header and one data row per distinct link among the records (a missing
\* link counting as "No Link"), at most 40, in the order in which the links
\* first appear, each row with the title and link of the first record with
\* that link and with four columns, the fourth not empty; after a completed
\* write of a trends table every row has two columns.
C16_StoredTableShape ==
    StWritten =>
       LET data == st.ws.data
           n == Len(data) - 1
       IN  /\ data[1] = HeaderOf(st.k)
           /\ \A i \in 1..(n + 1) : Len(data[i]) = Len(HeaderOf(st.k))
           /\ st.k = 1 =>
                 /\ HeaderOf(st.k) = <<"Title", "Link", "Snippet", "Meta Description">>
                 /\ n = Cardinality(StFirsts)
                 /\ n <= 40
                 /\ \A i \in 1..n :
                       /\ \E f \in StFirsts : StLinks[f] = data[i + 1][2]
                       /\ data[i + 1][1]
                             = OrDefault(st.records[StFirstOf(i)].title, "No Title")
                       /\ data[i + 1][4] \notin {"", NONE}
                 /\ \A i, j \in 1..n : i < j => StFirstOf(i) < StFirstOf(j)
           /\ st.k = 3 =>
                 /\ HeaderOf(st.k) = <<"Query", "Value">>
                 /\ n = Len(st.records)

\* three records of which the first and the third share a link, written
\* over a larger table: two data rows
C16_Witness ==
    /\ st.phase = "done"
    /\ st.k = 1
    /\ st.records = <<Article("A", "http://a", "sa"), Article("B", "https://b", NONE),
                      Article("A2", "http://a", NONE)>>
    /\ st.first.rows = 3
    /\ Len(st.ws.data) = 3
    /\ st.ws.data[2][1] = "A"
    /\ st.ws.data[3][1] = "B"
    /\ st.ws.data[3][4] = "No Snippet"

\* C17: the rows of Summaries change in one step only, the append of
\* store_summary when it completes, which puts one row holding the text
\* generate_summary returns after the rows already there and leaves those
\* as they were; no other step of any invocation (metadata reads and
\* writes, gated calls, fetches, table resizes and updates, table reads, a
\* raise) changes them;
\* and an invocation that returned a new summary returned the text of the
\* last row.
C17_SummariesAppendOnly ==
    /\ []((pc[1] = "idle" /\ loc[1].outcome = "fresh")
            => LastRow(sheets[TabSummaries]) = <<loc[1].ret>>)
    /\ [][ IF pc[1] = "append" /\ pc'[1] = "set_time"
             THEN /\ sheets'[TabSummaries].data
                       = Append(sheets[TabSummaries].data, <<loc[1].summary>>)
                  /\ loc'[1].summary = loc[1].summary
             ELSE sheets'[TabSummaries].data = sheets[TabSummaries].data
         ]_vars

\* a run, a gated call that returned its summary, and a second run with
\* another summary: two rows, the older first
C17_Witness ==
    /\ pc[1] = "idle"
    /\ calls = 3
    /\ loc[1].outcome = "fresh"
    /\ loc[1].prev.outcome = "cached"
    /\ loc[1].ret # loc[1].prev.ret
    /\ sheets[TabSummaries].data = <<(<<loc[1].prev.ret>>), (<<loc[1].ret>>)>>

\* C18: an invocation that read an empty timestamp cell enters the pipeline
\* whatever cooldown_hours it was called with (unless reading the summary
\* cell raises).
C18_AbsentRecordAlwaysRuns ==
    [][ (pc[1] = "get_sum" /\ loc[1].last_time = NoTime
           /\ ~(pc'[1] = "idle" /\ loc'[1].outcome = "error"))
          => pc'[1] = "fetch_news"
       ]_vars

\* what the code does: the elapsed time of an absent record is 9999 hours,
\* so the invocation enters the pipeline when cooldown_hours is at most
\* 9999 and returns None without running when it is larger
C18_AbsentRecordRunsUpToSentinel ==
    [][ (pc[1] = "get_sum" /\ loc[1].last_time = NoTime
           /\ ~(pc'[1] = "idle" /\ loc'[1].outcome = "error"))
          => IF loc[1].cooldown <= NeverRan
                THEN pc'[1] = "fetch_news"
                ELSE /\ pc'[1] = "idle"
                     /\ loc'[1].outcome = "cached"
                     /\ loc'[1].ret = NONE
                     /\ UNCHANGED <<meta, sheets>>
       ]_vars

\* a first call with cooldown_hours = 10000 on a workbook without
\* metadata: it returned None and nothing was retrieved or stored
C18_GatedWithoutRecord ==
    /\ pc[1] = "idle"
    /\ calls = 1
    /\ loc[1].cooldown > NeverRan
    /\ loc[1].last_time = NoTime
    /\ loc[1].outcome = "cached"
    /\ loc[1].ret = NONE
    /\ meta.time = NoTime
    /\ \A k \in DOMAIN DataTabs : ~sheets[DataTabs[k]].exists

\* the events of the provider fetches
FetchEvents == {"fetch_news", "fetch_tops", "trends_request", "trends_result",
                "provider_error"}

\* C19: in an invocation every provider fetch event (the news fetch, the
\* top-stories fetch, every trends request with its retries and its answer,
\* a provider failure) comes before the first resize or update of a data
\* table, and the first resize comes after all three fetches were answered;
\* no step taken before the store phase (the call, the metadata reads, the
\* fetches, the waits between trends attempts, a raise) changes any of the
\* four data tables, so an invocation that failed in a fetch leaves them as
\* they were when it was called; and an invocation that failed with some
\* but not all tables overwritten failed in the store phase.
C19_FetchesBeforeFirstOverwrite ==
    /\ [](\A i, j \in DOMAIN log[1] :
             (log[1][i].ev \in FetchEvents /\ log[1][j].ev \in {"resize", "update"})
                => i < j)
    /\ []((Storing \/ StoreEvents(log[1]) # <<>>)
            => /\ HasEv(log[1], "fetch_news")
               /\ HasEv(log[1], "fetch_tops")
               /\ HasEv(log[1], "trends_result")
               /\ ~HasEv(log[1], "provider_error"))
    /\ []((pc[1] = "idle" /\ loc[1].outcome = "failed"
              /\ HasEv(log[1], "provider_error"))
            => StoreEvents(log[1]) = <<>>)
    /\ [][ /\ ~Storing
                => \A k \in DOMAIN DataTabs : sheets'[DataTabs[k]] = sheets[DataTabs[k]]
           /\ (pc[1] = "idle" /\ pc'[1] = "idle") => UNCHANGED <<sheets, meta>>
           /\ (pc'[1] = "idle" /\ loc'[1].outcome = "failed"
                 /\ StoreEvents(log'[1]) \notin {<<>>, StoreOrder})
                => Storing
         ]_vars

\* a second run whose trends fetch was rate-limited, waited, and then
\* failed: the four tables are those the first run wrote
C19_Witness ==
    /\ pc[1] = "idle"
    /\ loc[1].outcome = "failed"
    /\ loc[1].prev.outcome = "fresh"
    /\ HasEv(log[1], "fetch_tops")
    /\ HasEv(log[1], "sleep")
    /\ HasEv(log[1], "provider_error")
    /\ StoreEvents(log[1]) = <<>>
    /\ \A k \in DOMAIN DataTabs : Len(sheets[DataTabs[k]].data) = 2
    /\ Len(sheets[TabSummaries].data) = 1

\* the records handed to the harness that have no link
StLinkless == {n \in DOMAIN st.records : st.records[n].link \in {NONE, ""}}

\* the data rows of the written table whose link column is "No Link"
StNoLinkRows == {i \in 2..Len(st.ws.data) : st.ws.data[i][2] = "No Link"}

\* C20: after a completed write of the Google News table at most one row
\* has the link "No Link"; there is one exactly when some record has no
\* link, and it is the row of the first such record (its title, its snippet
\* or "No Snippet") whatever the later link-less records hold, with
\* "Invalid URL" as its 4th column.
C20_OneLinklessRow ==
    (StWritten /\ st.k = 1) =>
       /\ Cardinality(StNoLinkRows) <= 1
       /\ (StNoLinkRows # {}) <=> (StLinkless # {})
       /\ \A i \in StNoLinkRows :
             LET first == CHOOSE n \in StLinkless : \A m \in StLinkless : n <= m
             IN  st.ws.data[i]
                   = <<OrDefault(st.records[first].title, "No Title"), "No Link",
                       OrDefault(st.records[first].snippet, "No Snippet"),
                       "Invalid URL">>

\* three records, the first and the third without link and with different
\* titles and snippets: the table holds the first and the second
C20_Witness ==
    /\ st.phase = "done"
    /\ st.k = 1
    /\ st.records = <<Article("Y", NONE, NONE), Article("A", "http://a", "sa"),
                      Article("X", NONE, "sx")>>
    /\ Len(st.ws.data) = 3
    /\ st.ws.data[2] = <<"Y", "No Link", "No Snippet", "Invalid URL">>
    /\ st.ws.data[3][1] = "A"

====
